---- MODULE Spec2Model ----
(***************************************************************************)
(* State-machine model of src/app.py: one Streamlit session of the        *)
(* "Chat with MySQL Database" shell.  A script run handles one user event *)
(* (Connect click, About click, chat submission); a submission that       *)
(* reaches get_response is unfolded into the external calls the chain     *)
(* makes (schema introspection, stage-1 LLM, SQL execution, stage-2 LLM). *)
(***************************************************************************)
EXTENDS Integers, Sequences, FiniteSets, TLC

\* ---------------------------------------------------------------- bounds
MaxLen      == 2   \* longest text typed into the chat input
MaxSubmits  == 2   \* non-empty submissions per explored session
MaxConnects == 2   \* successful connects per explored session

\* ------------------------------------------------------------ vocabulary
\* Texts are sequences of tokens: what the user types is a sequence of
\* characters, a fixed message or a completion is a one-token sequence.
Chars   == {" ", "a"}
None    == <<"None">>            \* chat_input returned nothing / unset value
NoDb    == 0                     \* "db" not in st.session_state
Handles == 1..MaxConnects        \* SQLDatabase objects built by init_database

SqlTexts == {<<"SELECT 1;">>, <<"DROP TABLE t;">>}   \* possible stage-1 completions
Answers  == {<<"There is one row.">>, <<"The table was dropped.">>}  \* stage-2 completions

Texts == UNION {[1..n -> Chars] : n \in 0..MaxLen}
Inputs == {None} \cup Texts

AIMessage(c)    == [role |-> "assistant", content |-> c]
HumanMessage(c) == [role |-> "human", content |-> c]
Seed == AIMessage(<<"Hello! This is an SQL assistant for your database.">>)

CallSites == {"schema1", "llm1", "schema2", "run", "llm2"}
DbSites   == {"schema1", "schema2", "run"}

\* str.strip(): drop leading and trailing whitespace (space and tab here)
IsSpace(c) == c \in {" ", "\t"}

RECURSIVE LStrip(_)
LStrip(s) == IF s = <<>> THEN s
             ELSE IF IsSpace(Head(s)) THEN LStrip(Tail(s)) ELSE s

RECURSIVE RStrip(_)
RStrip(s) == IF s = <<>> THEN s
             ELSE IF IsSpace(s[Len(s)]) THEN RStrip(SubSeq(s, 1, Len(s) - 1)) ELSE s

Strip(s) == RStrip(LStrip(s))

\* line 214: user_query is not None and user_query.strip() != ""
Accepted_NoStrip(q) == q # None /\ q # <<>>
Accepted(q) == q # None /\ Strip(q) # <<>>

\* db.get_table_info() and db.run(sql) of a given handle
TableInfo(h)      == <<"schema", h>>
RunResult(h, sql) == <<"rows", h, sql>>

EmptyChain == [question |-> None, query |-> None, schema |-> None,
               response |-> None, prompt2 |-> None]
NoCalls == [c \in CallSites |-> "idle"]

VARIABLES chat_history, db, shown, pc, status, calls, chain,
          user_query, hist0, db0, nSucc, nFail

vars == <<chat_history, db, shown, pc, status, calls, chain,
          user_query, hist0, db0, nSucc, nFail>>

Init ==
    /\ chat_history = <<Seed>>
    /\ db = NoDb
    /\ shown = "none"
    /\ pc = "idle"
    /\ status = NoCalls
    /\ calls = <<>>
    /\ chain = EmptyChain
    /\ user_query = None
    /\ hist0 = <<Seed>>
    /\ db0 = NoDb
    /\ nSucc = 0
    /\ nFail = 0

\* every script run starts from the session state left by the previous one
RunStart(q) ==
    /\ pc = "idle"
    /\ user_query' = q
    /\ hist0' = chat_history
    /\ db0' = db

\* lines 178-179
About ==
    /\ RunStart(None)
    /\ shown' = "about"
    /\ status' = NoCalls /\ calls' = <<>>
    /\ UNCHANGED <<chat_history, db, pc, chain, nSucc, nFail>>

\* ------------------------------------------------- session-state updates
\* line 200: st.session_state.db = db
AfterConnect_KeepsFirst(d, h) == IF d = NoDb THEN h ELSE d
AfterConnect(d, h) == h

\* lines 202-203: the except branch only renders st.error
AfterConnectFailed_Clears(d) == NoDb
AfterConnectFailed(d) == d

\* line 215: st.session_state.chat_history.append(HumanMessage(...))
AfterHuman_Skipped(h, q) == h
AfterHuman(h, q) == Append(h, HumanMessage(q))

\* lines 221-222: missing connection, only st.error
AfterNoDb_DropsQuestion(h) == SubSeq(h, 1, Len(h) - 1)
AfterNoDb(h) == h

\* line 228: st.session_state.chat_history.append(AIMessage(content=response))
AfterResponse(h, r) == Append(h, AIMessage(r))

\* lines 229-230: except Exception, only st.error
AfterException_AppendsError(h) == Append(h, AIMessage(<<"An error occurred">>))
AfterException_RollsBack(h) == SubSeq(h, 1, Len(h) - 1)
AfterException(h) == h

\* where the script run stands once the except branch has rendered the error
PcAfterException_Stops == "stopped"
PcAfterException == "idle"

\* lines 13-17: init_database builds a new SQLDatabase handle or raises
NewHandle(d) == d + 1

\* ---------------------------------------------------------------- connect
\* lines 190-201, init_database returned
ConnectOk ==
    /\ RunStart(None)
    /\ db < MaxConnects
    /\ db' = AfterConnect(db, NewHandle(db))
    /\ shown' = "connected"
    /\ status' = NoCalls /\ calls' = <<>>
    /\ UNCHANGED <<chat_history, pc, chain, nSucc, nFail>>

\* lines 190-199 and 202-203, init_database raised
ConnectFail ==
    /\ RunStart(None)
    /\ db' = AfterConnectFailed(db)
    /\ shown' = "connect_failed"
    /\ status' = NoCalls /\ calls' = <<>>
    /\ UNCHANGED <<chat_history, pc, chain, nSucc, nFail>>

\* ------------------------------------------------------------- submission
\* lines 213-214, guard false: nothing below line 214 runs
SubmitIgnored(q) ==
    /\ RunStart(q)
    /\ ~Accepted(q)
    /\ shown' = "none"
    /\ status' = NoCalls /\ calls' = <<>>
    /\ UNCHANGED <<chat_history, db, pc, chain, nSucc, nFail>>

\* lines 213-222, "db" not in st.session_state
SubmitNoDb(q) ==
    /\ RunStart(q)
    /\ Accepted(q)
    /\ nSucc + nFail < MaxSubmits
    /\ db = NoDb
    /\ chat_history' = AfterNoDb(AfterHuman(chat_history, q))
    /\ shown' = "please_connect"
    /\ status' = NoCalls /\ calls' = <<>>
    /\ nFail' = nFail + 1
    /\ UNCHANGED <<db, pc, chain, nSucc>>

\* lines 213-226 and 56-57, 83: get_response is entered and the chain's
\* first step (assign(schema=get_schema), line 50) calls db.get_table_info()
SubmitQuery(q) ==
    /\ RunStart(q)
    /\ Accepted(q)
    /\ nSucc + nFail < MaxSubmits
    /\ db # NoDb
    /\ chat_history' = AfterHuman(chat_history, q)
    /\ shown' = "thinking"
    /\ pc' = "get_response"
    /\ chain' = [EmptyChain EXCEPT !.question = q]
    /\ status' = [NoCalls EXCEPT !["schema1"] = "inflight"]
    /\ calls' = <<"schema1">>
    /\ UNCHANGED <<db, nSucc, nFail>>

\* lines 229-230: the exception leaves get_response and is rendered
Raise ==
    /\ chat_history' = AfterException(chat_history)
    /\ shown' = "error"
    /\ pc' = PcAfterException
    /\ chain' = EmptyChain
    /\ nFail' = nFail + 1
    /\ UNCHANGED <<db, user_query, hist0, db0, nSucc>>

\* line 47 returns; lines 51-52 send the stage-1 prompt
Schema1Ok ==
    /\ pc = "get_response" /\ status["schema1"] = "inflight"
    /\ status' = [status EXCEPT !["schema1"] = "ok", !["llm1"] = "inflight"]
    /\ calls' = Append(calls, "llm1")
    /\ chain' = [chain EXCEPT !.schema = TableInfo(db)]
    /\ UNCHANGED <<chat_history, db, shown, pc, user_query, hist0, db0, nSucc, nFail>>

\* line 47 raises
Schema1Err ==
    /\ pc = "get_response" /\ status["schema1"] = "inflight"
    /\ status' = [status EXCEPT !["schema1"] = "err"]
    /\ calls' = calls
    /\ Raise

\* lines 52-53 return the SQL text (query=sql_chain, line 74); the second
\* assign (lines 74-77) submits its schema step to the executor
Llm1Ok(sql) ==
    /\ pc = "get_response" /\ status["llm1"] = "inflight"
    /\ status' = [status EXCEPT !["llm1"] = "ok", !["schema2"] = "inflight"]
    /\ calls' = Append(calls, "schema2")
    /\ chain' = [chain EXCEPT !.query = sql]
    /\ UNCHANGED <<chat_history, db, shown, pc, user_query, hist0, db0, nSucc, nFail>>

\* line 52 raises
Llm1Err ==
    /\ pc = "get_response" /\ status["llm1"] = "inflight"
    /\ status' = [status EXCEPT !["llm1"] = "err"]
    /\ calls' = calls
    /\ Raise

\* line 76: the response step is submitted to the executor as well
SubmitRunStep ==
    /\ pc = "get_response" /\ status["llm1"] = "ok" /\ status["run"] = "idle"
    /\ status' = [status EXCEPT !["run"] = "inflight"]
    /\ calls' = Append(calls, "run")
    /\ UNCHANGED <<chat_history, db, shown, pc, chain, user_query, hist0, db0, nSucc, nFail>>

\* line 75: db.get_table_info() finishes in its worker
Schema2Return(ok) ==
    /\ pc = "get_response" /\ status["schema2"] = "inflight"
    /\ status' = [status EXCEPT !["schema2"] = IF ok THEN "ok" ELSE "err"]
    /\ chain' = IF ok THEN [chain EXCEPT !.schema = TableInfo(db)] ELSE chain
    /\ UNCHANGED <<chat_history, db, shown, pc, calls, user_query, hist0, db0, nSucc, nFail>>

\* line 76: db.run(vars["query"]) finishes in its worker
RunReturn(ok) ==
    /\ pc = "get_response" /\ status["run"] = "inflight"
    /\ status' = [status EXCEPT !["run"] = IF ok THEN "ok" ELSE "err"]
    /\ chain' = IF ok THEN [chain EXCEPT !.response = RunResult(db, chain.query)]
                       ELSE chain
    /\ UNCHANGED <<chat_history, db, shown, pc, calls, user_query, hist0, db0, nSucc, nFail>>

\* lines 74-77: the assign collects both steps before the chain goes on
JoinReady_FirstOnly(s) == s["schema2"] \notin {"idle", "inflight"}
JoinReady(s) == s["schema2"] \notin {"idle", "inflight"} /\ s["run"] \notin {"idle", "inflight"}

\* lines 74-77: a step that raised makes the assign raise
JoinOk_IgnoresRun(s) == s["schema2"] = "ok"
JoinOk(s) == s["schema2"] = "ok" /\ s["run"] = "ok"

\* lines 78-79: the stage-2 prompt is filled and sent
JoinThenLlm2 ==
    /\ pc = "get_response" /\ status["llm2"] = "idle"
    /\ JoinReady(status) /\ JoinOk(status)
    /\ status' = [status EXCEPT !["llm2"] = "inflight"]
    /\ calls' = Append(calls, "llm2")
    /\ chain' = [chain EXCEPT !.prompt2 = [schema |-> chain.schema,
                                            chat_history |-> chat_history,
                                            query |-> chain.query,
                                            question |-> chain.question,
                                            response |-> chain.response]]
    /\ UNCHANGED <<chat_history, db, shown, pc, user_query, hist0, db0, nSucc, nFail>>

\* lines 74-77: schema or response step raised
JoinRaise ==
    /\ pc = "get_response" /\ status["llm2"] = "idle"
    /\ JoinReady(status) /\ ~JoinOk(status)
    /\ UNCHANGED <<status, calls>>
    /\ Raise

\* lines 79-80, 226-228: the explanation comes back and is appended
Llm2Ok(ans) ==
    /\ pc = "get_response" /\ status["llm2"] = "inflight"
    /\ status' = [status EXCEPT !["llm2"] = "ok"]
    /\ chat_history' = AfterResponse(chat_history, ans)
    /\ shown' = "response"
    /\ pc' = "idle"
    /\ chain' = EmptyChain
    /\ nSucc' = nSucc + 1
    /\ UNCHANGED <<db, calls, user_query, hist0, db0, nFail>>

\* line 79 raises
Llm2Err ==
    /\ pc = "get_response" /\ status["llm2"] = "inflight"
    /\ status' = [status EXCEPT !["llm2"] = "err"]
    /\ calls' = calls
    /\ Raise

Next ==
    \/ About
    \/ ConnectOk
    \/ ConnectFail
    \/ \E q \in Inputs : SubmitIgnored(q)
    \/ \E q \in Inputs : SubmitNoDb(q)
    \/ \E q \in Inputs : SubmitQuery(q)
    \/ Schema1Ok
    \/ Schema1Err
    \/ \E sql \in SqlTexts : Llm1Ok(sql)
    \/ Llm1Err
    \/ SubmitRunStep
    \/ \E ok \in BOOLEAN : Schema2Return(ok)
    \/ \E ok \in BOOLEAN : RunReturn(ok)
    \/ JoinThenLlm2
    \/ JoinRaise
    \/ \E ans \in Answers : Llm2Ok(ans)
    \/ Llm2Err

Spec == Init /\ [][Next]_vars

TypeOK ==
    /\ db \in {NoDb} \cup Handles
    /\ pc \in {"idle", "get_response"}
    /\ status \in [CallSites -> {"idle", "inflight", "ok", "err"}]
    /\ user_query \in Inputs
    /\ nSucc + nFail <= MaxSubmits

\* ================================================================ claims
Last(h) == h[Len(h)]
IsPrefix(s, t) == Len(s) <= Len(t) /\ SubSeq(t, 1, Len(s)) = s
Blank(q) == q = None \/ \A i \in 1..Len(q) : q[i] \in {" ", "\t"}
InFlight == {c \in CallSites : status[c] = "inflight"}
Failed == {c \in CallSites : status[c] = "err"}

\* C1: the history holds the seed, two turns per successful submission and
\* one (human) turn per failed non-empty submission; a failed submission
\* leaves the human turn as the last turn, never an assistant turn.
C1_LengthFormula ==
    /\ pc = "idle" => Len(chat_history) = 1 + 2 * nSucc + nFail
    /\ pc # "idle" => Len(chat_history) = 1 + 2 * nSucc + nFail + 1
    /\ shown \in {"please_connect", "error"} =>
          /\ Len(chat_history) = Len(hist0) + 1
          /\ Last(chat_history).role = "human"

C1_Witness == pc = "idle" /\ nSucc >= 1 /\ nFail >= 1 /\ shown = "error"

\* C2: an absent, empty or whitespace-only submission creates no turn,
\* leaves history and connection as they were and starts no external call.
C2_BlankIgnored ==
    (Blank(user_query) /\ shown \notin {"connected", "connect_failed"}) =>
        /\ chat_history = hist0
        /\ db = db0
        /\ calls = <<>> /\ InFlight = {}
        /\ pc = "idle"
        /\ shown \in {"none", "about"}

C2_Witness ==
    /\ user_query # None /\ Len(user_query) >= 1 /\ Blank(user_query)
    /\ shown = "none" /\ db # NoDb /\ Len(chat_history) > 1

\* C3 as stated: a submission without a connection leaves the history unchanged.
C3_Original == shown = "please_connect" => chat_history = hist0

\* C3 amended: a non-empty submission without a connection reports the
\* missing connection, starts no external call and adds exactly the human
\* turn of the question to the history.
C3_NoDbKeepsQuestion ==
    /\ (~Blank(user_query) /\ db0 = NoDb) => shown = "please_connect"
    /\ shown = "please_connect" =>
          /\ db = NoDb /\ db0 = NoDb
          /\ chat_history = Append(hist0, HumanMessage(user_query))
          /\ calls = <<>>
          /\ pc = "idle"

C3_Witness == shown = "please_connect" /\ Len(hist0) >= 2

\* C4 as stated: a submission failing inside the pipeline leaves the history unchanged.
C4_Original == shown = "error" => chat_history = hist0

\* C4 amended: a failure inside the pipeline is surfaced, the chain's
\* partial results are dropped, and the history keeps exactly the human
\* turn appended before the pipeline ran.
C4_PipelineFailureKeepsQuestion ==
    /\ (pc = "idle" /\ Failed # {}) => shown = "error"
    /\ shown = "error" =>
          /\ Failed # {}
          /\ chain = EmptyChain
          /\ chat_history = Append(hist0, HumanMessage(user_query))

C4_Witness == shown = "error" /\ status["llm2"] = "err" /\ Len(hist0) >= 2

Pos(site) == CHOOSE i \in 1..Len(calls) : calls[i] = site
Called(site) == \E i \in 1..Len(calls) : calls[i] = site

\* C5: stage 1, then the SQL execution, then stage 2; stage 2 starts only
\* after the execution returned a result, and gets that result as
\* `response` and the stage-1 output as `query`.
C5_StageOrder ==
    /\ status["run"] # "idle" => status["llm1"] = "ok"
    /\ status["run"] = "inflight" => chain.query \in SqlTexts
    /\ status["llm2"] # "idle" => status["llm1"] = "ok" /\ status["run"] = "ok"
    /\ status["llm1"] = "err" => ~Called("run") /\ ~Called("llm2")
    /\ status["run"] = "err" => ~Called("llm2")
    /\ Called("run") => Called("llm1") /\ Pos("llm1") < Pos("run")
    /\ Called("llm2") => Called("run") /\ Pos("run") < Pos("llm2")
    /\ status["llm2"] = "inflight" =>
          /\ chain.prompt2.query = chain.query
          /\ chain.prompt2.response = <<"rows", db, chain.query>>
          /\ chain.prompt2.question = user_query

C5_Witness ==
    /\ status["llm2"] = "inflight"
    /\ chain.prompt2.response = <<"rows", db, <<"SELECT 1;">> >>

\* C6: every step leaves the old history as a prefix of the new one, and
\* the first turn stays the seed greeting.
C6_AppendOnly ==
    [][IsPrefix(chat_history, chat_history') /\ chat_history'[1] = Seed]_vars

C6_Witness == Len(chat_history) >= 4 /\ nFail >= 1

\* C7: a successful connect stores a newly built handle (also over an
\* earlier one); no connect, successful or not, changes the history.
C7_ConnectFrame ==
    /\ shown = "connected" =>
          db \in Handles /\ db # db0 /\ chat_history = hist0
    /\ shown = "connect_failed" => chat_history = hist0

C7_Witness == shown = "connected" /\ db0 # NoDb /\ Len(chat_history) > 1

\* C8 as stated: after a failed connect the session has no connection.
C8_Original == shown = "connect_failed" => db = NoDb

\* C8 amended: a failed connect leaves the session's connection as it was:
\* none if there was none, the earlier handle if there was one.
C8_FailedConnectKeepsDb ==
    shown = "connect_failed" => db = db0 /\ pc = "idle"

C8_Witness == shown = "connect_failed" /\ db0 # NoDb

\* C9: no external call is started twice in one submission, every failure
\* returns the shell to idle, and a submission with a connection and no
\* failing call ends with its assistant turn appended.
C9_NoWedgeNoRetry ==
    /\ \A i, j \in 1..Len(calls) : i # j => calls[i] # calls[j]
    /\ shown \in {"connect_failed", "please_connect", "error"} => pc = "idle"
    /\ pc \in {"idle", "get_response"}
    /\ (pc = "idle" /\ ~Blank(user_query) /\ db0 # NoDb /\ Failed = {}) =>
          /\ shown = "response"
          /\ Len(chat_history) = Len(hist0) + 2
          /\ Last(chat_history).role = "assistant"
          /\ Last(chat_history).content \in Answers

C9_Witness == shown = "response" /\ nFail >= 1 /\ Last(hist0).role = "human"

\* C10 as stated: no two operations on the connection are in flight together.
C10_Original == Cardinality(InFlight \cap DbSites) <= 1

\* C10 amended: one submission at a time and nothing left running after
\* it; the only calls that overlap are the stage-2 schema introspection
\* and the SQL execution, which the second assign dispatches together.
C10_OnlyAssignOverlaps ==
    /\ Cardinality(InFlight) <= 1 \/ InFlight = {"schema2", "run"}
    /\ pc = "idle" => InFlight = {}

C10_Witness == InFlight = {"schema2", "run"}

====
